---- MODULE Spec2Model ----
(***************************************************************************)
(* Model of the resumable PostgreSQL -> Elasticsearch transfer of          *)
(* src/01_etl: the checkpoint file (states.py), the scroll cursor and the  *)
(* bulk writer (loaders.py), the run itself (main.py, postgres_to_es) and  *)
(* the retry wrapper around connect-and-run (decorators.py, backoff).      *)
(*                                                                         *)
(* One OS process executes establish_connection at a time.  The process    *)
(* can be killed at any step (Crash); everything it holds in memory is     *)
(* then lost and only the checkpoint file and the sink survive.            *)
(***************************************************************************)
EXTENDS Integers, Sequences, FiniteSets, TLC

\* ---------------------------------------------------------------- bounds
NumRows == 3            \* rows of film_work in the source
PageSize == 2           \* cursor.arraysize (PAGE_SIZE)
MaxInvocations == 2     \* process starts explored
MaxTime == 3            \* last value of the wall clock explored

\* ------------------------------------------------------ program constants
max_retries == 10
initial_backoff == 2
max_backoff == 600

\* ----------------------------------------------------------------- data
Ids == 1..NumRows
Absent == -1            \* a key that is not in the mapping
MinTime == 0            \* dt.min
Junk == -2              \* a JSON value that is no ISO timestamp
FirstNow == 1           \* the wall clock when the first process starts

Min(a, b) == IF a < b THEN a ELSE b

RECURSIVE Pow(_, _)
Pow(b, e) == IF e <= 0 THEN 1 ELSE b * Pow(b, e - 1)

\* fw.modified of each row: row 1 is the oldest, all other rows carry one
\* later timestamp.  The timestamps come from the database and its writers,
\* not from the clock dt.utcnow() reads: a row can carry a timestamp later
\* than the run_start_time of a run whose query returns it.
Modified == [i \in Ids |-> IF i = 1 THEN 1 ELSE 2]

\* A checkpoint mapping: saved_dt and saved_rows, Absent when the key is missing.
EmptyMap == [dt |-> Absent, rows |-> Absent]

VARIABLES
    pc,             \* position of the process
    attempt,        \* backoff.wrapper: loop variable
    sleeps,         \* arguments of the time.sleep calls of this process, in order
    err,            \* the exception in flight or propagated
    state,          \* State.state, the in-memory mapping
    start_datetime, \* postgres_to_es local
    offset,         \* postgres_to_es local
    query_time,     \* postgres_to_es local
    cursor,         \* PostgreDb.cursor: result rows, position, time of execute
    data,           \* the page of the current loop iteration
    disk,           \* the checkpoint file state.json: st is "missing", "partial"
                    \* (truncated or half written) or "full"; map its contents
    sink,           \* number of documents stored in the index per source id
    sent,           \* number of times each source row was handed to bulk
    acked,          \* rows of pages whose offset save completed
    now,            \* wall clock
    invocations,    \* process starts so far
    badDocs,        \* documents the sink rejects
    invalidRows     \* rows MoviesForEs rejects

vars == <<pc, attempt, sleeps, err, state, start_datetime, offset, query_time,
          cursor, data, disk, sink, sent, acked, now, invocations, badDocs,
          invalidRows>>

NoErr == [type |-> "none", site |-> "none", at |-> 0]
NoCursor == [rows |-> <<>>, pos |-> 0, at |-> 0, scrolled |-> 0]

\* --------------------------------------------------------- states.py
\* FileStorage.retrieve_state: the parsed file, {} when open or json.load raises.
retrieve_state(d) == IF d.st = "full" THEN d.map ELSE EmptyMap

\* A file that parses as JSON but whose saved_dt is not a timestamp the program
\* wrote, e.g. {"saved_dt": "2024-01-"}.
JunkFile == [st |-> "full", map |-> [dt |-> Junk, rows |-> Absent]]

\* dt.fromisoformat(value) raises ValueError (TypeError) for such a value.
fromisoformat_raises(v) == v = Junk

\* State.get_state(key, default)
get_state(m, key, default) == IF m[key] = Absent THEN default ELSE m[key]

\* FileStorage.save_state, first half: open(file_path, 'w') truncates the file.
\* The contents the truncation destroyed are kept in map, which no reader sees.
save_open(d) == [st |-> "partial", map |-> retrieve_state(d)]

\* FileStorage.save_state, second half: json.dump wrote the mapping, file closed.
save_dump(m) == [st |-> "full", map |-> m]

\* State.set_state: self.state.update({key: value})
set_state_update(m, key, value) == [m EXCEPT ![key] = value]

\* State.clear_state: self.state.pop(key, None)
clear_state_pop(m, key) == [m EXCEPT ![key] = Absent]

\* -------------------------------------------------------- loaders.py
\* (a watermark comparison that includes the watermark itself)
MatchingInclusive(sdate) == {i \in Ids : Modified[i] >= sdate}

\* WHERE fw.modified > sdate
Matching(sdate) == {i \in Ids : Modified[i] > sdate}

\* ORDER BY fw.modified: every sequence of the matching rows in which
\* fw.modified never decreases; rows with equal fw.modified come in any order.
QueryResults(sdate) ==
    LET S == Matching(sdate)
        n == Cardinality(S)
    IN {s \in [1..n -> S] :
            /\ \A i, j \in 1..n : i # j => s[i] # s[j]
            /\ \A i, j \in 1..n : i < j => Modified[s[i]] <= Modified[s[j]]}

\* (one row at a time, whatever arraysize is)
fetchone(c) ==
    IF c.pos >= Len(c.rows) THEN <<>>
    ELSE SubSeq(c.rows, c.pos + 1, c.pos + 1)

\* cursor.fetchmany(): the next arraysize rows, fewer at the end, none after it.
fetchmany(c) ==
    IF c.pos >= Len(c.rows) THEN <<>>
    ELSE SubSeq(c.rows, c.pos + 1, Min(c.pos + PageSize, Len(c.rows)))

RowsOf(page) == {page[k] : k \in 1..Len(page)}

\* (a mapper that lets every row through)
validation_passes(page) == FALSE

\* read_data line 45: MoviesForEs(**row) raises ValidationError for a row of the page.
validation_raises(page) == RowsOf(page) \cap invalidRows # {}

\* EsDb.build_index: the actions carry _index and _source and no _id, so the
\* index stores every accepted action as a new document.
bulk_stored(s, page) ==
    [i \in Ids |-> IF i \in RowsOf(page) /\ i \notin badDocs THEN s[i] + 1 ELSE s[i]]

\* helpers.bulk with its defaults (raise_on_error) raises BulkIndexError when
\* the sink rejected a document of the chunk, after the chunk was processed.
bulk_raises(page) == RowsOf(page) \cap badDocs # {}

\* ------------------------------------------------------ decorators.py
\* (the delay without its cap)
DelayUncapped(k) == initial_backoff * Pow(2, k - 1)

\* min(max_backoff, initial_backoff * 2 ** (attempt - 1))
Delay(k) == Min(max_backoff, initial_backoff * Pow(2, k - 1))

\* for attempt in range(max_retries + 1)
RangeEnd == max_retries + 1

\* (a loop that does not count its attempts)
SameAttempt(a) == a

\* the next value of `attempt` that range(max_retries + 1) yields
NextAttempt(a) == a + 1

\* (raising one attempt early)
RaiseAttemptEarly == max_retries - 1

\* if attempt == max_retries: raise
RaiseAttempt == max_retries

\* ------------------------------------------------------------ main.py
\* (the time at completion instead of the time taken before the query)
SavedDtAtCompletion == now

\* the value stored under saved_dt at the end of the run (line 33)
SavedDtValue == query_time

\* (counting a full page whatever the page holds)
OffsetAfterFullPage == offset + PageSize

\* offset += len(data) (line 30)
OffsetAfterPage == offset + Len(data)

\* (an except clause that catches everything)
CaughtAll(e) == TRUE

\* except psycopg2.Error (line 18)
Caught(e) == e.type = "psycopg2"

\* (the file read by the first attempt only)
StoredStateOnce == IF attempt = 0 THEN retrieve_state(disk) ELSE state

\* State.__init__, line 25, run by line 20 of every call of postgres_to_es
StoredState == retrieve_state(disk)

Running == pc \notin {"down", "returned", "raised"}

Init ==
    /\ pc = "down"
    /\ attempt = 0
    /\ sleeps = <<>>
    /\ err = NoErr
    /\ state = EmptyMap
    /\ start_datetime = MinTime
    /\ offset = 0
    /\ query_time = MinTime
    /\ cursor = NoCursor
    /\ data = <<>>
    /\ disk \in {[st |-> "missing", map |-> EmptyMap], JunkFile}
    /\ sink = [i \in Ids |-> 0]
    /\ sent = [i \in Ids |-> 0]
    /\ acked = {}
    /\ now = FirstNow
    /\ invocations = 0
    /\ badDocs \in {B \in SUBSET Ids : Cardinality(B) <= 1}
    /\ invalidRows \in {V \in SUBSET Ids : Cardinality(V) + Cardinality(badDocs) <= 1}

Memory == <<attempt, sleeps, err, state, start_datetime, offset, query_time, cursor, data>>
World == <<disk, sink, sent, acked, now, badDocs, invalidRows>>

\* __main__: a new process calls establish_connection(dsl, es_path).
Start ==
    /\ ~Running
    /\ invocations < MaxInvocations
    /\ invocations' = invocations + 1
    /\ pc' = "loop"
    /\ attempt' = 0
    /\ sleeps' = <<>>
    /\ err' = NoErr
    /\ state' = EmptyMap
    /\ start_datetime' = MinTime
    /\ offset' = 0
    /\ query_time' = MinTime
    /\ cursor' = NoCursor
    /\ data' = <<>>
    /\ UNCHANGED World

\* The process is killed; its memory is gone, the file and the sink stay.
Crash ==
    /\ Running
    /\ pc' = "down"
    /\ attempt' = 0
    /\ sleeps' = <<>>
    /\ err' = NoErr
    /\ state' = EmptyMap
    /\ start_datetime' = MinTime
    /\ offset' = 0
    /\ query_time' = MinTime
    /\ cursor' = NoCursor
    /\ data' = <<>>
    /\ UNCHANGED <<World, invocations>>

\* The wall clock advances.  The program reads it at line 24 and the query
\* runs at the time of PostgreDb.__init__: time that passes elsewhere is
\* taken right before the next of these two reads.
Tick ==
    /\ pc \in {"load", "cursor"}
    /\ now < MaxTime
    /\ now' = now + 1
    /\ UNCHANGED <<pc, Memory, disk, sink, sent, acked, invocations, badDocs, invalidRows>>

\* backoff.wrapper, lines 12-15: the loop head; a retry sleeps first.
LoopHead ==
    /\ pc = "loop"
    /\ sleeps' = IF attempt # 0 THEN Append(sleeps, Delay(attempt)) ELSE sleeps
    /\ pc' = "connect"
    /\ UNCHANGED <<attempt, err, state, start_datetime, offset, query_time, cursor, data,
                   World, invocations>>

\* psycopg2.Error raised inside func at `site`: control goes to the except clause.
Raise(type, site) ==
    /\ err' = [type |-> type, site |-> site, at |-> attempt]
    /\ pc' = "except"

\* establish_connection, line 40: psycopg2.connect succeeds.
ConnectOk ==
    /\ pc = "connect"
    /\ pc' = "load"
    /\ UNCHANGED <<Memory, World, invocations>>

\* establish_connection, line 40: psycopg2.connect raises OperationalError.
ConnectFail ==
    /\ pc = "connect"
    /\ Raise("psycopg2", "connect")
    /\ UNCHANGED <<attempt, sleeps, state, start_datetime, offset, query_time, cursor, data,
                   World, invocations>>

\* backoff.wrapper, lines 18-23: psycopg2.Error is caught, re-raised when
\* attempt == max_retries, and the loop goes on otherwise (ending the wrapper
\* when the range is used up); any other exception passes through the wrapper.
HandleError ==
    /\ pc = "except"
    /\ IF Caught(err) /\ attempt # RaiseAttempt
       THEN /\ attempt' = IF NextAttempt(attempt) < RangeEnd THEN NextAttempt(attempt) ELSE attempt
            /\ pc' = IF NextAttempt(attempt) < RangeEnd THEN "loop" ELSE "returned"
            /\ state' = EmptyMap
            /\ start_datetime' = MinTime
            /\ offset' = 0
            /\ query_time' = MinTime
            /\ cursor' = NoCursor
            /\ data' = <<>>
            /\ err' = NoErr
       ELSE /\ pc' = "raised"
            /\ UNCHANGED <<attempt, err, state, start_datetime, offset, query_time, cursor, data>>
    /\ UNCHANGED <<sleeps, World, invocations>>

\* postgres_to_es, lines 19-24: load the checkpoint, read the watermark, take
\* the time; dt.fromisoformat of line 21 raises on a value that is no timestamp.
LoadState ==
    /\ pc = "load"
    /\ LET m == StoredState IN
        /\ state' = m
        /\ IF fromisoformat_raises(get_state(m, "dt", MinTime))
           THEN /\ Raise("ValueError", "load")
                /\ UNCHANGED <<start_datetime, offset, query_time>>
           ELSE /\ start_datetime' = get_state(m, "dt", MinTime)
                /\ offset' = get_state(m, "rows", 0)
                /\ query_time' = now
                /\ pc' = "cursor"
                /\ err' = err
    /\ UNCHANGED <<attempt, sleeps, cursor, data, World, invocations>>

\* PostgreDb.__init__, lines 34-37: execute the query, scroll(offset).
OpenCursor ==
    /\ pc = "cursor"
    /\ \E r \in QueryResults(start_datetime) :
          cursor' = [rows |-> r, pos |-> offset, at |-> now, scrolled |-> offset]
    /\ pc' = "fetch"
    /\ UNCHANGED <<attempt, sleeps, err, state, start_datetime, offset, query_time, data,
                   World, invocations>>

\* PostgreDb.__init__: execute or scroll raises psycopg2.Error.
OpenCursorFail ==
    /\ pc = "cursor"
    /\ Raise("psycopg2", "cursor")
    /\ UNCHANGED <<attempt, sleeps, state, start_datetime, offset, query_time, cursor, data,
                   World, invocations>>

\* PostgreDb.read_data, lines 43-45: the next page; the loop of line 27 ends on an empty one.
\* A row of the page that MoviesForEs rejects makes line 45 raise before the
\* page is yielded.
Fetch ==
    /\ pc = "fetch"
    /\ LET page == fetchmany(cursor) IN
        /\ cursor' = [cursor EXCEPT !.pos = cursor.pos + Len(page)]
        /\ IF validation_raises(page)
           THEN /\ Raise("ValidationError", "map")
                /\ data' = data
           ELSE /\ data' = page
                /\ pc' = IF page = <<>> THEN "finish" ELSE "bulk"
                /\ err' = err
    /\ UNCHANGED <<attempt, sleeps, state, start_datetime, offset, query_time,
                   World, invocations>>

\* PostgreDb.read_data, line 43: fetchmany raises psycopg2.Error.
FetchFail ==
    /\ pc = "fetch"
    /\ Raise("psycopg2", "fetch")
    /\ UNCHANGED <<attempt, sleeps, state, start_datetime, offset, query_time, cursor, data,
                   World, invocations>>

\* EsDb.bulk_write, lines 168-171, called at main.py line 29.
BulkWrite ==
    /\ pc = "bulk"
    /\ sink' = bulk_stored(sink, data)
    /\ sent' = [i \in Ids |-> IF i \in RowsOf(data) THEN sent[i] + 1 ELSE sent[i]]
    /\ IF bulk_raises(data)
       THEN Raise("BulkIndexError", "bulk")
       ELSE pc' = "advance" /\ err' = err
    /\ UNCHANGED <<attempt, sleeps, state, start_datetime, offset, query_time, cursor, data,
                   disk, acked, now, badDocs, invalidRows, invocations>>

\* main.py lines 30-31: offset += len(data); set_state updates the mapping and
\* save_state opens the file for writing.
SetOffset ==
    /\ pc = "advance"
    /\ offset' = OffsetAfterPage
    /\ state' = set_state_update(state, "rows", OffsetAfterPage)
    /\ disk' = save_open(disk)
    /\ pc' = "dump_rows"
    /\ UNCHANGED <<attempt, sleeps, err, start_datetime, query_time, cursor, data,
                   sink, sent, acked, now, badDocs, invalidRows, invocations>>

\* main.py line 31, save_state: json.dump and close; back to the loop of line 27.
DumpOffset ==
    /\ pc = "dump_rows"
    /\ disk' = save_dump(state)
    /\ acked' = acked \cup RowsOf(data)
    /\ pc' = "fetch"
    /\ UNCHANGED <<Memory, sink, sent, now, badDocs, invalidRows, invocations>>

\* main.py line 33: set_state(saved_dt, query_time.isoformat()), file opened for writing.
SetDt ==
    /\ pc = "finish"
    /\ state' = set_state_update(state, "dt", SavedDtValue)
    /\ disk' = save_open(disk)
    /\ pc' = "dump_dt"
    /\ UNCHANGED <<attempt, sleeps, err, start_datetime, offset, query_time, cursor, data,
                   sink, sent, acked, now, badDocs, invalidRows, invocations>>

\* main.py line 33, save_state: json.dump and close.
DumpDt ==
    /\ pc = "dump_dt"
    /\ disk' = save_dump(state)
    /\ pc' = "clear"
    /\ UNCHANGED <<Memory, sink, sent, acked, now, badDocs, invalidRows, invocations>>

\* main.py line 34: clear_state(saved_rows), file opened for writing.
ClearOffset ==
    /\ pc = "clear"
    /\ state' = clear_state_pop(state, "rows")
    /\ disk' = save_open(disk)
    /\ pc' = "dump_clear"
    /\ UNCHANGED <<attempt, sleeps, err, start_datetime, offset, query_time, cursor, data,
                   sink, sent, acked, now, badDocs, invalidRows, invocations>>

\* main.py line 34, save_state: json.dump and close; postgres_to_es returns,
\* the wrapper takes its else branch and breaks.
DumpClear ==
    /\ pc = "dump_clear"
    /\ disk' = save_dump(state)
    /\ acked' = {}
    /\ pc' = "returned"
    /\ UNCHANGED <<Memory, sink, sent, now, badDocs, invalidRows, invocations>>

\* FileStorage.save_state, line 10: open(file_path, 'w') raises OSError; the
\* caller has already updated its locals and the mapping, the file is untouched.
SaveOpenFail ==
    /\ pc \in {"advance", "finish", "clear"}
    /\ offset' = IF pc = "advance" THEN OffsetAfterPage ELSE offset
    /\ state' = CASE pc = "advance" -> set_state_update(state, "rows", OffsetAfterPage)
                  [] pc = "finish" -> set_state_update(state, "dt", SavedDtValue)
                  [] pc = "clear" -> clear_state_pop(state, "rows")
    /\ Raise("OSError", "save")
    /\ UNCHANGED <<attempt, sleeps, start_datetime, query_time, cursor, data,
                   World, invocations>>

\* FileStorage.save_state, line 11: json.dump (or the close) raises OSError;
\* the file stays as the open left it.
SaveDumpFail ==
    /\ pc \in {"dump_rows", "dump_dt", "dump_clear"}
    /\ Raise("OSError", "save")
    /\ UNCHANGED <<attempt, sleeps, state, start_datetime, offset, query_time, cursor, data,
                   World, invocations>>

Next ==
    \/ Start
    \/ Crash
    \/ Tick
    \/ LoopHead
    \/ ConnectOk
    \/ ConnectFail
    \/ HandleError
    \/ LoadState
    \/ OpenCursor
    \/ OpenCursorFail
    \/ Fetch
    \/ FetchFail
    \/ BulkWrite
    \/ SetOffset
    \/ DumpOffset
    \/ SetDt
    \/ DumpDt
    \/ ClearOffset
    \/ DumpClear
    \/ SaveOpenFail
    \/ SaveDumpFail

Spec == Init /\ [][Next]_vars

\* The steps of the running process: the interpreter executes the next
\* statement of a process that has not ended.
ProcStep ==
    \/ LoopHead
    \/ ConnectOk
    \/ ConnectFail
    \/ HandleError
    \/ LoadState
    \/ OpenCursor
    \/ OpenCursorFail
    \/ Fetch
    \/ FetchFail
    \/ BulkWrite
    \/ SetOffset
    \/ DumpOffset
    \/ SetDt
    \/ DumpDt
    \/ ClearOffset
    \/ DumpClear
    \/ SaveOpenFail
    \/ SaveDumpFail

\* A process that is running keeps taking steps until it ends or is killed.
LiveSpec == Spec /\ WF_vars(ProcStep)

\* ================================================================ claims

\* ---- C1 (stated as claimed; the code violates it).
\* Resume correctness: once the offset of a page is checkpointed, no later
\* step (of this or of a re-invoked process) hands a row of that page to the
\* sink again, and whenever the cursor of a run is drained every row of its
\* result set has been handed to the sink.
C1_ResumeExactlyOnce ==
    [][/\ \A i \in acked : sent'[i] = sent[i]
       /\ pc' = "finish" => \A i \in RowsOf(cursor'.rows) : sent'[i] >= 1]_vars

\* ---- C2 (stated as claimed; the code violates it).
\* Run completion is one persisted update: once the file holds the new
\* run_start_time under saved_dt it no longer holds saved_rows.
C2_CompletionOneUpdate ==
    ~(/\ pc = "clear"
      /\ disk.st = "full"
      /\ disk.map.dt = query_time
      /\ disk.map.rows # Absent)

\* ---- C3 (stated as claimed; the code violates it).
\* A psycopg2 error raised after the connection was opened is fatal: from the
\* except clause the process only propagates it (or is killed), it never goes
\* back to the loop head to run again.
C3_MidRunErrorIsFatal ==
    [][(pc = "except" /\ err.type = "psycopg2" /\ err.site # "connect" /\ pc' # pc)
            => pc' \in {"raised", "down"}]_vars

\* Invocations of the wrapped function made so far by the running process.
Calls ==
    IF pc = "down" THEN 0
    ELSE IF pc = "loop" THEN attempt
    ELSE attempt + 1

\* ---- C4 (the original statement; the code violates it).
\* The wrapper invokes the wrapped operation at most 10 times.
C4_AtMostTenCalls == Calls <= 10

\* ---- C4 (as amended).
\* The wrapper invokes the wrapped operation at most 11 times (the first call
\* and max_retries = 10 retries); a psycopg2 error leaves the wrapper only
\* after the 11th invocation failed, and it is the error of that invocation;
\* the wrapper returns normally only when its last invocation did not fail.
C4_RetryBudget ==
    /\ Calls <= 11
    /\ (pc = "raised" /\ err.type = "psycopg2") => (Calls = 11 /\ err.at = 10)
    /\ (pc = "returned") => (err.type = "none" \/ err.at < attempt)

C4_Witness == pc = "raised" /\ err.type = "psycopg2" /\ Calls = 11

\* ---- C5.
\* Backoff delay: the k-th sleep of a process, the one before retry attempt k,
\* lasts min(600, 2 * 2^(k-1)) seconds, i.e. 2, 4, ..., 512, 600; there is no
\* sleep before the first invocation (as many sleeps as retries begun), and
\* the delays never decrease and never exceed 600.
ExpectedDelays == <<2, 4, 8, 16, 32, 64, 128, 256, 512, 600>>

C5_BackoffDelay ==
    /\ Len(sleeps) = (IF pc = "loop" /\ attempt > 0 THEN attempt - 1 ELSE attempt)
    /\ Len(sleeps) <= Len(ExpectedDelays)
    /\ \A k \in 1..Len(sleeps) :
          /\ sleeps[k] = ExpectedDelays[k]
          /\ sleeps[k] <= 600
          /\ k > 1 => sleeps[k - 1] <= sleeps[k]

C5_Witness == Len(sleeps) = 10 /\ sleeps[10] = 600 /\ pc = "connect"

\* ---- C6 (stated as claimed; the code violates it).
\* Checkpoint writes are atomic: at every point, also in the middle of a
\* save, retrieve_state returns the complete mapping saved last or the
\* complete mapping being saved, never an empty one in their place.
C6_AtomicSave ==
    \/ retrieve_state(disk) = disk.map
    \/ pc \in {"dump_rows", "dump_dt", "dump_clear"} /\ retrieve_state(disk) = state

\* ---- C7.
\* Watermark monotonicity: once a run has stored saved_dt, the stored value is
\* the query_time this invocation took before its query was executed, and it is
\* not below the saved_dt the invocation loaded.
C7_WatermarkMonotone ==
    (pc \in {"clear", "dump_clear", "returned"} /\ disk.st = "full") =>
        /\ disk.map.dt = query_time
        /\ disk.map.dt <= cursor.at
        /\ disk.map.dt >= start_datetime

C7_Witness ==
    /\ pc = "returned"
    /\ disk.st = "full"
    /\ attempt >= 1
    /\ offset > PageSize
    /\ start_datetime = MinTime
    /\ disk.map.dt = query_time
    /\ now > query_time

\* ---- C8 (stated as claimed; the code violates it).
\* Idempotent load: however often an accepted document was bulk-written, the
\* index holds exactly one document for its id.
C8_IdempotentLoad ==
    \A i \in Ids : (sent[i] >= 1 /\ i \notin badDocs) => sink[i] = 1

\* ---- C9 (stated as claimed; the code violates it).
\* Partial-batch tolerance: a bulk write of a page with a rejected document
\* does not raise; the other documents are stored and the run goes on to
\* advance the offset by the whole page.
C9_PartialBatchTolerated ==
    [][(pc = "bulk" /\ RowsOf(data) \cap badDocs # {} /\ pc' \notin {"bulk", "down"})
            => /\ pc' = "advance"
               /\ \A i \in RowsOf(data) \ badDocs : sink'[i] = sink[i] + 1]_vars

\* Rows handed to the sink so far in the run, and the offset a restart would read.
WrittenRows == offset + (IF pc = "advance" THEN Len(data) ELSE 0)
DurableOffset == get_state(retrieve_state(disk), "rows", 0)

\* ---- C10 (stated as claimed; the code violates it).
\* At every point of the page loop the rows already bulk-written exceed the
\* durably persisted offset by at most one page.
C10_AtMostOnePageAhead ==
    pc \in {"fetch", "bulk", "advance", "dump_rows", "finish"} =>
        WrittenRows - DurableOffset <= PageSize

RECURSIVE SumTo(_, _)
SumTo(f, n) == IF n = 0 THEN 0 ELSE f[n] + SumTo(f, n - 1)

\* Rows handed to bulk_write so far, every delivery counted.
Flushed == SumTo(sent, NumRows)

C12_LoadNeverRaises ==
    /\ err.site # "load"
    /\ (pc = "cursor" /\ (disk.st # "full" \/ disk = JunkFile)) =>
            (state = EmptyMap /\ start_datetime = MinTime /\ offset = 0)

\* ---- C13.
\* A failed save is fatal: after save_state raised, the exception goes through
\* the wrapper untouched: the process only reaches the raise (or is killed),
\* never the loop head or a normal return, it sleeps no more, counts no new
\* attempt, reads no further page and hands nothing more to the sink.
C13_SaveFailureFatal ==
    [][(err.type = "OSError" /\ invocations' = invocations) =>
            /\ pc' \in {"except", "raised", "down"}
            /\ pc = "raised" => pc' # "except"
            /\ sent' = sent
            /\ sink' = sink
            /\ disk' = disk
            /\ pc' # "down" => (attempt' = attempt /\ sleeps' = sleeps /\ cursor' = cursor)]_vars

C13_Witness ==
    /\ pc = "raised"
    /\ err.type = "OSError"
    /\ err.site = "save"
    /\ attempt < max_retries
    /\ cursor.pos < Len(cursor.rows)

\* The rows of the result set after the first `from`, up to `to`.
RowsBetween(from, to) == SubSeq(cursor.rows, from + 1, Min(to, Len(cursor.rows)))

\* ---- C14.
\* Paging and per-page checkpoint: with the stored watermark (T, O) loaded,
\* the run reads the rows after the first O in order, in consecutive pages of
\* exactly PageSize rows, only the last one shorter; once a page is
\* checkpointed the file holds (T, O + rows delivered so far) with T as loaded;
\* after the full run it holds (run_start_time, no offset).
C14_PagingCheckpoint ==
    /\ pc \in {"fetch", "bulk", "advance"} =>
            /\ offset >= cursor.scrolled
            /\ \/ (offset - cursor.scrolled) % PageSize = 0
               \/ pc = "fetch" /\ offset = Len(cursor.rows)
    /\ pc \in {"bulk", "advance"} =>
            /\ data # <<>>
            /\ data = RowsBetween(offset, offset + PageSize)
            /\ cursor.pos = offset + Len(data)
            /\ Len(data) = PageSize \/ cursor.pos = Len(cursor.rows)
    /\ (pc = "fetch" /\ data = <<>>) =>
            /\ offset = cursor.scrolled
            /\ offset = get_state(state, "rows", 0)
    /\ (pc = "fetch" /\ data # <<>>) =>
            /\ cursor.pos = offset
            /\ disk.st = "full"
            /\ disk.map.rows = offset
            /\ get_state(disk.map, "dt", MinTime) = start_datetime
    /\ (pc = "returned" /\ disk.st = "full") =>
            disk.map = [dt |-> query_time, rows |-> Absent]
    /\ pc = "returned" => disk.st = "full"

\* Three rows and pages of two from offset 0: pages of 2 and 1, (T, 2) in the
\* file after page 1.
C14_Witness ==
    /\ pc = "bulk"
    /\ cursor.scrolled = 0
    /\ Len(cursor.rows) = NumRows
    /\ offset = PageSize
    /\ Len(data) = NumRows - PageSize
    /\ disk = [st |-> "full", map |-> [dt |-> Absent, rows |-> PageSize]]

\* The running process loaded a finalized checkpoint: a watermark and no offset.
FromFinalized ==
    /\ pc \notin {"down", "loop", "connect", "load", "except", "raised"}
    /\ start_datetime # MinTime
    /\ IF pc = "cursor" THEN offset = 0 ELSE cursor.scrolled = 0

DurableDt == get_state(retrieve_state(disk), "dt", MinTime)

\* The run has loaded its checkpoint and has not drained its cursor.
Undrained ==
    \/ pc \in {"cursor", "fetch", "bulk", "advance", "dump_rows"}
    \/ pc = "except" /\ err.site \in {"cursor", "fetch", "bulk", "map"}

\* ---- C16 (stated as claimed; the code violates it).
\* The watermark is finalized only by a fully drained run: a completed page
\* checkpoint writes the saved_dt the file held before it, a save drops
\* saved_rows only when the cursor is exhausted, and when a run that has not
\* drained its cursor is killed or ends with an error, the file still yields
\* the last_sync_time the run loaded.
C16_FinalizedOnlyWhenDrained ==
    [][/\ (pc = "dump_rows" /\ disk'.st = "full") => disk'.map.dt = disk.map.dt
       /\ (disk'.st = "full" /\ disk.map.rows # Absent /\ disk'.map.rows = Absent) =>
                (pc = "dump_clear" /\ cursor.pos >= Len(cursor.rows))
       /\ (Undrained /\ pc' \in {"down", "raised"}) => DurableDt' = start_datetime]_vars

\* ---- C17.
\* A row that fails validation fails its whole page loudly: the step that
\* raises ValidationError hands nothing to the sink and leaves the file alone,
\* the file then yields the offset of the pages before and the
\* last_sync_time the run loaded; afterwards the process only propagates
\* the error (no retry, no write, no save); a rejected row is never handed to
\* the sink.
C17_ValidationFailsPage ==
    [][/\ (err'.type = "ValidationError" /\ err.type # "ValidationError") =>
            /\ pc = "fetch" /\ pc' = "except"
            /\ sent' = sent /\ sink' = sink /\ disk' = disk
            /\ offset' = cursor.pos
            /\ DurableOffset' = offset'
            /\ DurableDt' = start_datetime'
       /\ (err.type = "ValidationError" /\ invocations' = invocations) =>
            /\ pc' \in {"except", "raised", "down"}
            /\ pc = "raised" => pc' # "except"
            /\ sent' = sent /\ sink' = sink /\ disk' = disk
            /\ pc' # "down" => (attempt' = attempt /\ sleeps' = sleeps)
       /\ \A i \in invalidRows : sent'[i] = 0]_vars

\* The second page fails after the first was checkpointed.
C17_Witness ==
    /\ pc = "raised"
    /\ err.type = "ValidationError"
    /\ offset = PageSize
    /\ DurableOffset = PageSize
    /\ \A i \in Ids : sent[i] = IF i \in RowsOf(data) THEN 1 ELSE 0

\* The rows scroll(offset) passes over in the result set of the next state.
Skipped == {cursor'.rows[k] : k \in 1..Min(offset, Len(cursor'.rows))}

\* ---- C18 (stated as claimed; the code violates it).
\* Offset-based resume is well-defined under ties: when a run resumes at the
\* persisted offset, over the same selection of the unchanged source, the
\* rows its cursor skips are exactly the rows checkpointed before, whatever
\* rows share a timestamp.
C18_ResumeUnderTies ==
    [][(/\ pc = "cursor" /\ pc' = "fetch"
        /\ offset > 0
        /\ offset = Cardinality(acked)
        /\ acked \subseteq Matching(start_datetime)) => Skipped = acked]_vars

\* ---- C19.
\* Every attempt of the wrapper is a fresh run from the durable checkpoint:
\* before its load an attempt holds nothing of an earlier one; after the load
\* its mapping, offset and watermark are the file's; its cursor is opened for
\* the stored watermark by a query executed after its own run_start_time and
\* stands at the persisted offset.
C19_FreshAttempt ==
    /\ pc \in {"loop", "connect", "load"} =>
            /\ state = EmptyMap /\ offset = 0 /\ start_datetime = MinTime
            /\ query_time = MinTime /\ cursor = NoCursor /\ data = <<>>
    /\ pc = "cursor" =>
            /\ state = retrieve_state(disk)
            /\ offset = DurableOffset
            /\ start_datetime = DurableDt
            /\ query_time >= DurableDt
            /\ cursor = NoCursor
    /\ (pc = "fetch" /\ data = <<>>) =>
            /\ cursor.scrolled = DurableOffset
            /\ cursor.pos = DurableOffset
            /\ cursor.at >= query_time
            /\ cursor.rows \in QueryResults(DurableDt)

\* A retry resumes at the offset the failed attempt had checkpointed.
C19_Witness ==
    /\ pc = "fetch"
    /\ data = <<>>
    /\ attempt >= 1
    /\ Len(sleeps) = attempt
    /\ DurableOffset = PageSize
    /\ cursor.pos = PageSize
    /\ cursor.at > FirstNow

\* ---- C20.
\* Termination: every invocation of establish_connection ends (by returning,
\* by raising, or by being killed); a process that returned makes no further
\* attempt and one that raised stays ended; the attempts never exceed
\* max_retries + 1, and a return after the run leaves the finalized
\* checkpoint in the file.
C20_Termination ==
    /\ [](Running => <>(~Running))
    /\ [][(pc \in {"returned", "raised"} /\ invocations' = invocations) =>
                (pc' = pc /\ attempt' = attempt /\ sent' = sent /\ disk' = disk)]_vars
    /\ [](attempt < RangeEnd /\ Len(sleeps) <= attempt)
    /\ [](pc = "returned" => disk = [st |-> "full", map |-> [dt |-> query_time, rows |-> Absent]])

\* The source failed on every attempt: the wrapper raised after the last one.
C20_Witness ==
    /\ pc = "raised"
    /\ attempt = max_retries
    /\ Len(sleeps) = max_retries
    /\ err.type = "psycopg2"

====
